---- MODULE Spec2Model ----
(***************************************************************************)
(* State-machine model of the quiz session manager (QuizManager,           *)
(* src/js/utils.js), the progression engine (GamificationManager) and the  *)
(* persistent store (StorageManager), both in src/js/gamification.js.      *)
(*                                                                         *)
(* Every public method is one action.  The methods of StorageManager and   *)
(* GamificationManager load the record, change it and save it; each is     *)
(* written as a pair of operators on the stored value: XxxData gives the   *)
(* record that is persisted afterwards, XxxRet the value returned.         *)
(***************************************************************************)
EXTENDS Integers, Sequences, FiniteSets, TLC

VARIABLES
    questions,             \* QuizManager.questions: the loaded question pool
    figures,               \* App.figures: the loaded figure catalog
    currentQuestions,      \* QuizManager.currentQuestions
    currentQuestionIndex,  \* QuizManager.currentQuestionIndex
    score,                 \* QuizManager.score
    correctAnswers,        \* QuizManager.correctAnswers
    wrongAnswers,          \* QuizManager.wrongAnswers
    consecutiveCorrect,    \* QuizManager.consecutiveCorrect
    difficulty,            \* QuizManager.difficulty
    isAnswered,            \* QuizManager.isAnswered
    stored,                \* the item under storageKey in localStorage, or NoData
    today,                 \* the calendar date the clock shows (a day number)
    ret,                   \* the last call: [op, arg, threw, val]
    calls                  \* the number of calls made so far, where a run is bounded by it

session == <<currentQuestions, currentQuestionIndex, score, correctAnswers,
             wrongAnswers, consecutiveCorrect, difficulty, isAnswered>>
vars == <<questions, figures, currentQuestions, currentQuestionIndex, score, correctAnswers,
          wrongAnswers, consecutiveCorrect, difficulty, isAnswered, stored, today, ret, calls>>

----------------------------------------------------------------------------
(* Bounds of the model *)

\* getResults is called while the history holds fewer entries than this
MaxSessions == 1
\* nextQuestion is called while the cursor is less than this far past the end
MaxOverrun == 0
\* the clock shows the dates 0..MaxDay
MaxDay == 1
\* addExperience is called directly while the level is at most this
MaxLevel == 3
\* the number of calls in a run of SpecStore
MaxCalls == 3
\* the granularity of Math.random(): it returns k / RandomSteps, k in 0..RandomSteps-1
RandomSteps == 2
\* the largest number of beginner questions in a pool of SpecSelect
MaxPool == 11
\* the number of sessions completed in a run of SpecHistory
MaxHistorySessions == 55
\* the number of sessions completed on each day of a run of SpecHistory
SessionsPerDay == 3
\* the largest count of consecutive correct answers passed to calculatePoints
MaxConsecutive == 12

(* Program constants *)

QuizLength == 10
HistoryLimit == 50
MsPerDay == 86400000
LearnerCorrect == 50
ScholarCorrect == 200
Streak7Days == 7
Streak30Days == 30

----------------------------------------------------------------------------
(* Values *)

\* loadUserData() returning null: there is no item, or the item is a text that
\* JSON.parse rejects; no method tells the two apart and none saves then
NoData == [absent |-> TRUE]
Null == [null |-> TRUE]              \* lastPlayDate: null
Undefined == [undefined |-> TRUE]    \* JavaScript's undefined

Difficulties == {"beginner", "intermediate", "advanced"}
Categories == {"scientist", "artist", "politician", "inventor", "philosopher"}

\* the keys of this.badges, in the order of the table
BadgeIds ==
    <<"beginner", "learner", "scholar", "perfectionist", "streak_7", "streak_30",
      "scientist_master", "artist_master", "politician_master",
      "inventor_master", "philosopher_master">>

\* this.badges: badge id -> definition (name and icon are display data)
Badges ==
    [id \in {BadgeIds[i] : i \in DOMAIN BadgeIds} |->
        [badge |-> id,
         condition |->
            CASE id = "beginner" -> "quiz_completed"
              [] id = "learner" -> "correct_50"
              [] id = "scholar" -> "correct_200"
              [] id = "perfectionist" -> "perfect_quiz"
              [] id = "streak_7" -> "streak_7"
              [] id = "streak_30" -> "streak_30"
              [] id = "scientist_master" -> "category_scientist"
              [] id = "artist_master" -> "category_artist"
              [] id = "politician_master" -> "category_politician"
              [] id = "inventor_master" -> "category_inventor"
              [] OTHER -> "category_philosopher"]]

\* this.badges[id]: undefined for an id that is no key of the table
BadgeOf(id) == IF id \in DOMAIN Badges THEN Badges[id] ELSE Undefined

NoCategoryStats == [c \in {} |-> [total |-> 0, correct |-> 0]]

defaultUserData ==
    [level |-> 1,
     experience |-> 0,
     totalPoints |-> 0,
     streak |-> 0,
     lastPlayDate |-> Null,
     unlockedFigures |-> <<>>,
     badges |-> <<>>,
     statistics |-> [totalQuestions |-> 0, correctAnswers |-> 0, accuracyRate |-> 0,
                     categoryStats |-> NoCategoryStats],
     quizHistory |-> <<>>]

\* a question of data/questions.json
Question(id, cat, diff, correct, fig) ==
    [id |-> id, category |-> cat, difficulty |-> diff, question |-> id,
     options |-> <<"optA", "optB">>, correctAnswer |-> correct,
     explanation |-> id, figureId |-> fig]

\* the option indexes a user can select
Options == {0, 1}

\* the pool of Spec: two beginner questions, one intermediate, no advanced
Pool ==
    << Question(1, "scientist", "beginner", 0, "f1"),
       Question(2, "artist", "beginner", 1, "f2"),
       Question(3, "scientist", "intermediate", 0, "f1") >>

\* a pool with a single question, for the specifications about the stored record
TinyPool == << Question(1, "scientist", "beginner", 0, "f1") >>

\* a pool with n beginner questions between two questions of other difficulties
PoolOf(n) ==
    [i \in 1..(n + 2) |->
        Question(i, IF i % 2 = 0 THEN "scientist" ELSE "artist",
                 IF i = 1 THEN "intermediate" ELSE IF i = n + 2 THEN "advanced" ELSE "beginner",
                 i % 2, IF i % 3 = 0 THEN "f1" ELSE "f2")]

\* the figure catalog of data/figures.json, as far as checkCategoryMaster reads it
Figures == << [id |-> "f1", category |-> "scientist"], [id |-> "f2", category |-> "artist"] >>

----------------------------------------------------------------------------
(* Array helpers *)

\* Array.prototype.includes
Includes(arr, x) == \E i \in DOMAIN arr : arr[i] = x

\* Array.prototype.slice(0, count)
SliceTo(arr, count) == SubSeq(arr, 1, IF Len(arr) < count THEN Len(arr) ELSE count)

\* Array.prototype.slice(-count)
SliceLast(arr, count) ==
    SubSeq(arr, IF Len(arr) > count THEN Len(arr) - count + 1 ELSE 1, Len(arr))

----------------------------------------------------------------------------
(* Utility functions (src/js/utils.js) *)

\* formatDate / getToday: the "YYYY-MM-DD" string of calendar day d
formatDate(d) == [ymd |-> d]

\* new Date("YYYY-MM-DD"): the string read as midnight UTC, in milliseconds
DateOf(str) == str.ymd * MsPerDay

\* the fractions value / total, in lowest terms and with total up to 1000, whose
\* percentage ends in a half that double arithmetic loses: value / total is
\* rounded to the double below it and the product with 100 stays below the half
HalfLost == {<<23, 40>>, <<29, 200>>, <<57, 200>>, <<113, 200>>}

\* calculatePercentage with Math.floor in the place of Math.round
calculatePercentageFloor(value, total) ==
    IF total = 0 THEN 0 ELSE (100 * value) \div total

\* Math.round((value / total) * 100) in double arithmetic, for total up to 1000:
\* the nearest integer, a half going upwards unless the product lost it
calculatePercentage(value, total) ==
    IF total = 0 THEN 0
    ELSE LET halfUp == (2 * 100 * value + total) \div (2 * total)
         IN  IF \E f \in HalfLost : value * f[2] = total * f[1]
             THEN halfUp - 1
             ELSE halfUp

\* one draw of Math.floor(Math.random() * n), Math.random() being k / RandomSteps
RandomBelow(n) == {(k * n) \div RandomSteps : k \in 0..(RandomSteps - 1)}

\* the sequences of draws a shuffle of n elements makes: draws[i] is the j drawn
\* when the loop index is i (0-based), for i = n-1 down to 1
RECURSIVE ShuffleDraws(_)
ShuffleDraws(n) ==
    IF n < 2 THEN {<<>>}
    ELSE {Append(f, j) : f \in ShuffleDraws(n - 1), j \in RandomBelow(n)}

Swap(arr, a, b) == [arr EXCEPT ![a] = arr[b], ![b] = arr[a]]

\* the Fisher-Yates loop from 0-based index i down to 1, swapping i and draws[i]
RECURSIVE ShuffleFrom(_, _, _)
ShuffleFrom(arr, i, draws) ==
    IF i > 0 THEN ShuffleFrom(Swap(arr, i + 1, draws[i] + 1), i - 1, draws) ELSE arr

shuffleArray(array, draws) == ShuffleFrom(array, Len(array) - 1, draws)

----------------------------------------------------------------------------
(* GamificationManager: pure calculations *)

calculateRequiredExp(level) == 100 * level * level

\* calculatePoints whose first tier starts after 3 consecutive answers, not at 3
calculatePointsLateTier(diff, isCorrect, consecutive) ==
    IF ~isCorrect THEN 0
    ELSE LET base == CASE diff = "beginner" -> 10
                       [] diff = "intermediate" -> 20
                       [] diff = "advanced" -> 30
                       [] OTHER -> 10
             p1 == IF consecutive > 3 THEN base + 10 ELSE base
         IN  IF consecutive >= 5 THEN p1 + 20 ELSE p1

\* calculatePoints whose second tier adds 20 to the base, not to the first tier
calculatePointsTierReplaces(diff, isCorrect, consecutive) ==
    IF ~isCorrect THEN 0
    ELSE LET base == CASE diff = "beginner" -> 10
                       [] diff = "intermediate" -> 20
                       [] diff = "advanced" -> 30
                       [] OTHER -> 10
         IN  IF consecutive >= 5 THEN base + 20
             ELSE IF consecutive >= 3 THEN base + 10 ELSE base

\* basePoints[difficulty] || 10: OTHER is a difficulty that names no property of
\* the table (the names every object inherits, such as "constructor", are no
\* difficulty of the program and are not among the inputs)
calculatePoints(diff, isCorrect, consecutive) ==
    IF ~isCorrect THEN 0
    ELSE LET base == CASE diff = "beginner" -> 10
                       [] diff = "intermediate" -> 20
                       [] diff = "advanced" -> 30
                       [] OTHER -> 10
             p1 == IF consecutive >= 3 THEN base + 10 ELSE base
         IN  IF consecutive >= 5 THEN p1 + 20 ELSE p1

calculateConsecutiveBonus(consecutive) ==
    IF consecutive >= 5 THEN 30
    ELSE IF consecutive >= 3 THEN 10
    ELSE 0

----------------------------------------------------------------------------
(* StorageManager: each method loads the record u (NoData: nothing stored), *)
(* changes it and saves it                                                  *)

\* awardBadge
awardBadgeRet(u, badgeId) == u # NoData /\ ~Includes(u.badges, badgeId)

\* awardBadge that pushes without looking whether the badge is held
awardBadgeAlways(u, badgeId) ==
    IF u # NoData THEN [u EXCEPT !.badges = Append(@, badgeId)] ELSE u

\* awardBadge that stores the new badge in place of the list
awardBadgeReplaces(u, badgeId) ==
    IF u # NoData /\ ~Includes(u.badges, badgeId)
    THEN [u EXCEPT !.badges = <<badgeId>>]
    ELSE u

awardBadgeData(u, badgeId) ==
    IF u # NoData /\ ~Includes(u.badges, badgeId)
    THEN [u EXCEPT !.badges = Append(@, badgeId)]
    ELSE u

\* unlockFigure that pushes without looking whether the figure is unlocked
unlockFigureAlways(u, figureId) ==
    IF u # NoData THEN [u EXCEPT !.unlockedFigures = Append(@, figureId)] ELSE u

\* unlockFigure
unlockFigureData(u, figureId) ==
    IF u # NoData /\ ~Includes(u.unlockedFigures, figureId)
    THEN [u EXCEPT !.unlockedFigures = Append(@, figureId)]
    ELSE u

\* addPoints
addPointsData(u, points) ==
    IF u # NoData THEN [u EXCEPT !.totalPoints = @ + points] ELSE u

\* StorageManager.addExperience: adds, without levelling up
storageAddExperienceData(u, exp) ==
    IF u # NoData THEN [u EXCEPT !.experience = @ + exp] ELSE u

\* updateStatistics: stats is an object that may lack any of the fields
\* totalQuestions, correctAnswers and category
updateStatisticsData(u, stats) ==
    IF u = NoData THEN u
    ELSE
    LET has(f) == f \in DOMAIN stats
        tq == u.statistics.totalQuestions
                + (IF has("totalQuestions") THEN stats.totalQuestions ELSE 0)
        ca == u.statistics.correctAnswers
                + (IF has("correctAnswers") THEN stats.correctAnswers ELSE 0)
        rate == IF tq > 0 THEN calculatePercentage(ca, tq) ELSE u.statistics.accuracyRate
        old == u.statistics.categoryStats
        cat == stats.category
        prev == IF cat \in DOMAIN old THEN old[cat] ELSE [total |-> 0, correct |-> 0]
        cs == IF has("category")
              THEN [c \in DOMAIN old \cup {cat} |->
                       IF c = cat
                       THEN [total |-> prev.total
                                + (IF has("totalQuestions") THEN stats.totalQuestions ELSE 0),
                             correct |-> prev.correct
                                + (IF has("correctAnswers") THEN stats.correctAnswers ELSE 0)]
                       ELSE old[c]]
              ELSE old
    IN  [u EXCEPT !.statistics = [totalQuestions |-> tq, correctAnswers |-> ca,
                                  accuracyRate |-> rate, categoryStats |-> cs]]

\* addQuizToHistory that keeps the first HistoryLimit entries, dropping the newest
addQuizToHistoryKeepsFirst(u, quizResult, day) ==
    IF u = NoData THEN u
    ELSE
    LET entry == [k \in DOMAIN quizResult \cup {"date"} |->
                     IF k = "date" THEN formatDate(day) ELSE quizResult[k]]
    IN  [u EXCEPT !.quizHistory = SliceTo(Append(u.quizHistory, entry), HistoryLimit)]

\* addQuizToHistory: the entry gets the date; only the last HistoryLimit are kept
addQuizToHistoryData(u, quizResult, day) ==
    IF u = NoData THEN u
    ELSE
    \* {...quizResult, date: getToday(), timestamp: Date.now()}; the timestamp,
    \* which nothing reads, is left out
    LET entry == [k \in DOMAIN quizResult \cup {"date"} |->
                     IF k = "date" THEN formatDate(day) ELSE quizResult[k]]
        pushed == Append(u.quizHistory, entry)
    IN  [u EXCEPT !.quizHistory =
            IF Len(pushed) > HistoryLimit THEN SliceLast(pushed, HistoryLimit) ELSE pushed]

\* updateStreak that counts any later day as a consecutive day
StreakAfterNoReset(u, day) ==
    IF u.lastPlayDate = formatDate(day) THEN u.streak
    ELSE IF u.lastPlayDate # Null
         THEN LET diffDays == (DateOf(formatDate(day)) - DateOf(u.lastPlayDate)) \div MsPerDay
              IN  IF diffDays >= 1 THEN u.streak + 1 ELSE u.streak
         ELSE 1

\* updateStreak that restarts the streak at every difference but 1, negative ones too
StreakAfterBackwardsResets(u, day) ==
    IF u.lastPlayDate = formatDate(day) THEN u.streak
    ELSE IF u.lastPlayDate # Null
         THEN LET diffDays == (DateOf(formatDate(day)) - DateOf(u.lastPlayDate)) \div MsPerDay
              IN  IF diffDays = 1 THEN u.streak + 1 ELSE 1
         ELSE 1

\* updateStreak: the streak after the call
StreakAfter(u, day) ==
    IF u.lastPlayDate = formatDate(day) THEN u.streak
    ELSE IF u.lastPlayDate # Null
         THEN LET diffTime == DateOf(formatDate(day)) - DateOf(u.lastPlayDate)
                  diffDays == diffTime \div MsPerDay
              IN  IF diffDays = 1 THEN u.streak + 1
                  ELSE IF diffDays > 1 THEN 1
                  ELSE u.streak
         ELSE 1

updateStreakData(u, day) ==
    IF u = NoData THEN u
    ELSE IF u.lastPlayDate = formatDate(day) THEN u
    ELSE [u EXCEPT !.streak = StreakAfter(u, day), !.lastPlayDate = formatDate(day)]

\* updateStreak that returns the streak it loaded, not the one it stores
updateStreakRetLoaded(u, day) == IF u = NoData THEN 0 ELSE u.streak

updateStreakRet(u, day) == IF u = NoData THEN 0 ELSE StreakAfter(u, day)

\* a JSON text: [json |-> v] is a text that JSON.parse reads as the value v,
\* NotJSON a text on which it throws a SyntaxError
NotJSON == [garbage |-> TRUE]
TextOf(v) == [json |-> v]
Parses(text) == "json" \in DOMAIN text
JSONParse(text) == text.json

\* the stored item after saveUserData(value), as loadUserData reads it back: the
\* item "null", which JSON.stringify(null) gives, is read as null, like no item
savedItem(value) == IF value = Null THEN NoData ELSE value

\* initializeUserData: the default record is stored when loadUserData gives null
initializeUserDataData(u) == IF u = NoData THEN defaultUserData ELSE u

----------------------------------------------------------------------------
(* GamificationManager: operations on the stored record *)

\* a level-up check that is an if, not a while: one level at most per call
LevelUpOnce(u) ==
    IF u.experience >= calculateRequiredExp(u.level)
    THEN [u EXCEPT !.experience = @ - calculateRequiredExp(u.level), !.level = @ + 1]
    ELSE u

\* the while loop of addExperience
RECURSIVE LevelUpLoop(_)
LevelUpLoop(u) ==
    IF u.experience >= calculateRequiredExp(u.level)
    THEN LevelUpLoop([u EXCEPT !.experience = @ - calculateRequiredExp(u.level),
                               !.level = @ + 1])
    ELSE u

\* addExperience that starts from the default record when none is stored
addExperienceCreates(u, exp) ==
    LevelUpLoop([(IF u = NoData THEN defaultUserData ELSE u) EXCEPT !.experience = @ + exp])

addExperienceData(u, exp) ==
    IF u = NoData THEN u ELSE LevelUpLoop([u EXCEPT !.experience = @ + exp])

addExperienceRet(u, exp) ==
    IF u = NoData THEN [leveledUp |-> FALSE]
    ELSE LET after == addExperienceData(u, exp)
         IN  [leveledUp |-> after.level # u.level,
              oldLevel |-> u.level,
              newLevel |-> after.level,
              currentExp |-> after.experience,
              requiredExp |-> calculateRequiredExp(after.level)]

\* the six checks in the order of the badges table, not in that of the code
BadgeChecksTableOrder(userData, quizResult) ==
    << <<"beginner", TRUE>>,
       <<"learner", userData.statistics.correctAnswers >= LearnerCorrect>>,
       <<"scholar", userData.statistics.correctAnswers >= ScholarCorrect>>,
       <<"perfectionist", quizResult.correctAnswers = quizResult.totalQuestions>>,
       <<"streak_7", userData.streak >= Streak7Days>>,
       <<"streak_30", userData.streak >= Streak30Days>> >>

\* the six checks of checkBadgeConditions, in the order of the code: the badge and
\* its condition on the record userData loaded at the start of the call
BadgeChecks(userData, quizResult) ==
    << <<"beginner", TRUE>>,
       <<"perfectionist", quizResult.correctAnswers = quizResult.totalQuestions>>,
       <<"learner", userData.statistics.correctAnswers >= LearnerCorrect>>,
       <<"scholar", userData.statistics.correctAnswers >= ScholarCorrect>>,
       <<"streak_7", userData.streak >= Streak7Days>>,
       <<"streak_30", userData.streak >= Streak30Days>> >>

\* the checks from the k-th on: cur is the record as stored so far, new the badges
\* pushed so far; gives <<record stored at the end, newBadges>>
RECURSIVE RunBadgeChecks(_, _, _, _, _)
RunBadgeChecks(userData, checks, k, cur, new) ==
    IF k > Len(checks) THEN <<cur, new>>
    ELSE LET id == checks[k][1]
             awarded == /\ ~Includes(userData.badges, id)
                        /\ checks[k][2]
                        /\ awardBadgeRet(cur, id)
         IN  IF ~Includes(userData.badges, id) /\ checks[k][2]
             THEN RunBadgeChecks(userData, checks, k + 1, awardBadgeData(cur, id),
                                 IF awarded THEN Append(new, BadgeOf(id)) ELSE new)
             ELSE RunBadgeChecks(userData, checks, k + 1, cur, new)

checkBadgeConditionsBoth(u, quizResult) ==
    IF u = NoData THEN <<u, <<>> >>
    ELSE RunBadgeChecks(u, BadgeChecks(u, quizResult), 1, u, <<>>)

checkBadgeConditionsData(u, quizResult) == checkBadgeConditionsBoth(u, quizResult)[1]
checkBadgeConditionsRet(u, quizResult) == checkBadgeConditionsBoth(u, quizResult)[2]

\* `${category}_master`
MasterBadgeId(category) ==
    CASE category = "scientist" -> "scientist_master"
      [] category = "artist" -> "artist_master"
      [] category = "politician" -> "politician_master"
      [] category = "inventor" -> "inventor_master"
      [] category = "philosopher" -> "philosopher_master"
      [] OTHER -> "other_master"

\* checkCategoryMaster without the test that the category has a figure
CategoryMasterAwardedVacuously(u, category, allFigures) ==
    /\ u # NoData
    /\ ~Includes(u.badges, MasterBadgeId(category))
    /\ LET categoryFigures == SelectSeq(allFigures, LAMBDA f : f.category = category)
       IN  \A i \in DOMAIN categoryFigures :
              Includes(u.unlockedFigures, categoryFigures[i].id)

\* checkCategoryMaster: does it reach storage.awardBadge and get true
CategoryMasterAwarded(u, category, allFigures) ==
    /\ u # NoData
    /\ ~Includes(u.badges, MasterBadgeId(category))
    /\ LET categoryFigures == SelectSeq(allFigures, LAMBDA f : f.category = category)
       IN  /\ \A i \in DOMAIN categoryFigures :
                 Includes(u.unlockedFigures, categoryFigures[i].id)
           /\ Len(categoryFigures) > 0

checkCategoryMasterData(u, category, allFigures) ==
    IF CategoryMasterAwarded(u, category, allFigures)
    THEN awardBadgeData(u, MasterBadgeId(category))
    ELSE u

checkCategoryMasterRet(u, category, allFigures) ==
    IF u = NoData \/ Includes(u.badges, MasterBadgeId(category)) THEN Undefined
    ELSE IF CategoryMasterAwarded(u, category, allFigures)
         THEN BadgeOf(MasterBadgeId(category))
         ELSE Null

\* getAllBadges
getAllBadgesRet(u) ==
    IF u = NoData THEN <<>>
    ELSE [i \in DOMAIN BadgeIds |->
            [id |-> BadgeIds[i], badge |-> Badges[BadgeIds[i]],
             unlocked |-> Includes(u.badges, BadgeIds[i])]]

----------------------------------------------------------------------------
(* QuizManager (src/js/utils.js) *)

Ret(op, arg, val) == [op |-> op, arg |-> arg, threw |-> FALSE, val |-> val]
Threw(op, arg, error) == [op |-> op, arg |-> arg, threw |-> TRUE, val |-> error]

\* selectQuestions that forgets to cut the shuffled list to count
selectQuestionsUncut(pool, diff, count, draws) ==
    shuffleArray(SelectSeq(pool, LAMBDA q : q.difficulty = diff), draws)

\* selectQuestions(difficulty, count), the shuffle making the draws given
selectQuestions(pool, diff, count, draws) ==
    LET availableQuestions == SelectSeq(pool, LAMBDA q : q.difficulty = diff)
        shuffled == shuffleArray(availableQuestions, draws)
    IN  SliceTo(shuffled, count)

\* the number of pool questions of a difficulty
Available(pool, diff) == Len(SelectSeq(pool, LAMBDA q : q.difficulty = diff))

\* getCurrentQuestion(): this.currentQuestions[this.currentQuestionIndex]
getCurrentQuestion ==
    IF currentQuestionIndex + 1 \in DOMAIN currentQuestions
    THEN currentQuestions[currentQuestionIndex + 1]
    ELSE Undefined

\* question.options[i]
OptionAt(question, i) ==
    IF i + 1 \in DOMAIN question.options THEN question.options[i + 1] ELSE Undefined

\* startQuiz(difficulty), the shuffle of selectQuestions making the draws given
StartQuizWith(diff, draws) ==
    LET selected == selectQuestions(questions, diff, QuizLength, draws) IN
    /\ difficulty' = diff
    /\ currentQuestionIndex' = 0
    /\ score' = 0
    /\ correctAnswers' = 0
    /\ wrongAnswers' = <<>>
    /\ consecutiveCorrect' = 0
    /\ currentQuestions' = selected
    /\ ret' = Ret("startQuiz", diff, Len(selected) # 0)
    /\ UNCHANGED <<questions, figures, isAnswered, stored, today>>

StartQuiz(diff) ==
    \E draws \in ShuffleDraws(Available(questions, diff)) : StartQuizWith(diff, draws)

GetCurrentQuestion ==
    /\ ret' = Ret("getCurrentQuestion", Undefined, getCurrentQuestion)
    /\ UNCHANGED <<questions, figures, session, stored, today>>

GetProgress ==
    /\ ret' = Ret("getProgress", Undefined,
                  calculatePercentage(currentQuestionIndex + 1, Len(currentQuestions)))
    /\ UNCHANGED <<questions, figures, session, stored, today>>

\* checkAnswer past its guard whose result reports the points of the count of
\* consecutive answers before this one
AcceptAnswerStalePoints(selectedOption) ==
    LET question == getCurrentQuestion IN
    IF question = Undefined
    THEN \* question.correctAnswer of undefined: a TypeError, before any assignment
         /\ ret' = Threw("checkAnswer", selectedOption, "TypeError")
         /\ UNCHANGED <<questions, figures, session, stored, today>>
    ELSE LET isCorrect == selectedOption = question.correctAnswer
             points == calculatePoints(difficulty, TRUE, consecutiveCorrect + 1)
         IN
         /\ isAnswered' = TRUE
         /\ IF isCorrect
            THEN /\ correctAnswers' = correctAnswers + 1
                 /\ consecutiveCorrect' = consecutiveCorrect + 1
                 /\ score' = score + points
                 /\ UNCHANGED wrongAnswers
            ELSE /\ consecutiveCorrect' = 0
                 /\ wrongAnswers' = Append(wrongAnswers,
                        [question |-> question.question,
                         correctAnswer |-> OptionAt(question, question.correctAnswer),
                         userAnswer |-> OptionAt(question, selectedOption)])
                 /\ UNCHANGED <<correctAnswers, score>>
         /\ ret' = Ret("checkAnswer", selectedOption,
                       [isCorrect |-> isCorrect,
                        correctAnswer |-> question.correctAnswer,
                        explanation |-> question.explanation,
                        points |-> IF isCorrect
                                   THEN calculatePoints(difficulty, TRUE, consecutiveCorrect)
                                   ELSE 0])
         /\ UNCHANGED <<questions, figures, currentQuestions, currentQuestionIndex, difficulty,
                        stored, today>>

\* checkAnswer past its guard: an unanswered question is being answered
AcceptAnswer(selectedOption) ==
    LET question == getCurrentQuestion IN
    IF question = Undefined
    THEN \* question.correctAnswer of undefined: a TypeError, before any assignment
         /\ ret' = Threw("checkAnswer", selectedOption, "TypeError")
         /\ UNCHANGED <<questions, figures, session, stored, today>>
    ELSE LET isCorrect == selectedOption = question.correctAnswer
             points == calculatePoints(difficulty, TRUE, consecutiveCorrect + 1)
         IN
         /\ isAnswered' = TRUE
         /\ IF isCorrect
            THEN /\ correctAnswers' = correctAnswers + 1
                 /\ consecutiveCorrect' = consecutiveCorrect + 1
                 /\ score' = score + points
                 /\ UNCHANGED wrongAnswers
            ELSE /\ consecutiveCorrect' = 0
                 /\ wrongAnswers' = Append(wrongAnswers,
                        [question |-> question.question,
                         correctAnswer |-> OptionAt(question, question.correctAnswer),
                         userAnswer |-> OptionAt(question, selectedOption)])
                 /\ UNCHANGED <<correctAnswers, score>>
         /\ ret' = Ret("checkAnswer", selectedOption,
                       [isCorrect |-> isCorrect,
                        correctAnswer |-> question.correctAnswer,
                        explanation |-> question.explanation,
                        points |-> IF isCorrect
                                   THEN calculatePoints(difficulty, TRUE, consecutiveCorrect')
                                   ELSE 0])
         /\ UNCHANGED <<questions, figures, currentQuestions, currentQuestionIndex, difficulty,
                        stored, today>>

\* checkAnswer without the isAnswered guard
CheckAnswerUnguarded(selectedOption) == AcceptAnswer(selectedOption)

CheckAnswer(selectedOption) ==
    IF isAnswered
    THEN /\ ret' = Ret("checkAnswer", selectedOption, Null)
         /\ UNCHANGED <<questions, figures, session, stored, today>>
    ELSE AcceptAnswer(selectedOption)

\* nextQuestion that also commits the running score as experience
NextQuestionCommits ==
    /\ isAnswered' = FALSE
    /\ currentQuestionIndex' = currentQuestionIndex + 1
    /\ stored' = addExperienceData(stored, score)
    /\ ret' = Ret("nextQuestion", Undefined,
                  currentQuestionIndex + 1 < Len(currentQuestions))
    /\ UNCHANGED <<questions, figures, currentQuestions, score, correctAnswers, wrongAnswers,
                   consecutiveCorrect, difficulty, today>>

NextQuestion ==
    /\ isAnswered' = FALSE
    /\ currentQuestionIndex' = currentQuestionIndex + 1
    /\ ret' = Ret("nextQuestion", Undefined,
                  currentQuestionIndex + 1 < Len(currentQuestions))
    /\ UNCHANGED <<questions, figures, currentQuestions, score, correctAnswers, wrongAnswers,
                   consecutiveCorrect, difficulty, stored, today>>

\* [...new Set(figureIds)]: the first occurrence of each id, in order
RECURSIVE Unique(_)
Unique(arr) ==
    IF arr = <<>> THEN <<>>
    ELSE LET front == Unique(SubSeq(arr, 1, Len(arr) - 1))
             last == arr[Len(arr)]
         IN  IF Includes(front, last) THEN front ELSE Append(front, last)

\* uniqueFigureIds.forEach(figureId => storage.unlockFigure(figureId))
RECURSIVE UnlockEach(_, _)
UnlockEach(u, ids) ==
    IF ids = <<>> THEN u ELSE UnlockEach(unlockFigureData(u, Head(ids)), Tail(ids))

unlockFiguresFromQuizData(u) ==
    UnlockEach(u, Unique([i \in DOMAIN currentQuestions |-> currentQuestions[i].figureId]))

\* getResults that checks the badge conditions first, before the statistics and
\* the streak of the session are stored
GetResultsBadgesFirst ==
    LET totalQuestions == Len(currentQuestions)
        accuracyRate == calculatePercentage(correctAnswers, totalQuestions)
        quizResult == [correctAnswers |-> correctAnswers,
                       totalQuestions |-> totalQuestions,
                       difficulty |-> difficulty]
        newBadges == checkBadgeConditionsRet(stored, quizResult)
        u0 == checkBadgeConditionsData(stored, quizResult)
        levelUpInfo == addExperienceRet(u0, score)
        u1 == addExperienceData(u0, score)
        u2 == updateStatisticsData(u1, [totalQuestions |-> totalQuestions,
                                        correctAnswers |-> correctAnswers])
        newStreak == updateStreakRet(u2, today)
        u4 == updateStreakData(u2, today)
        u5 == unlockFiguresFromQuizData(u4)
        u6 == addQuizToHistoryData(u5, [difficulty |-> difficulty,
                                        score |-> score,
                                        correctAnswers |-> correctAnswers,
                                        totalQuestions |-> totalQuestions,
                                        accuracyRate |-> accuracyRate], today)
    IN
    /\ stored' = u6
    /\ ret' = Ret("getResults", Undefined,
                  [score |-> score,
                   correctAnswers |-> correctAnswers,
                   totalQuestions |-> totalQuestions,
                   accuracyRate |-> accuracyRate,
                   wrongAnswers |-> wrongAnswers,
                   levelUpInfo |-> levelUpInfo,
                   newBadges |-> newBadges,
                   newStreak |-> newStreak])
    /\ UNCHANGED <<questions, figures, session, today>>

GetResults ==
    LET totalQuestions == Len(currentQuestions)
        accuracyRate == calculatePercentage(correctAnswers, totalQuestions)
        levelUpInfo == addExperienceRet(stored, score)
        u1 == addExperienceData(stored, score)
        u2 == updateStatisticsData(u1, [totalQuestions |-> totalQuestions,
                                        correctAnswers |-> correctAnswers])
        newStreak == updateStreakRet(u2, today)
        u3 == updateStreakData(u2, today)
        quizResult == [correctAnswers |-> correctAnswers,
                       totalQuestions |-> totalQuestions,
                       difficulty |-> difficulty]
        newBadges == checkBadgeConditionsRet(u3, quizResult)
        u4 == checkBadgeConditionsData(u3, quizResult)
        u5 == unlockFiguresFromQuizData(u4)
        u6 == addQuizToHistoryData(u5, [difficulty |-> difficulty,
                                        score |-> score,
                                        correctAnswers |-> correctAnswers,
                                        totalQuestions |-> totalQuestions,
                                        accuracyRate |-> accuracyRate], today)
    IN
    /\ stored' = u6
    /\ ret' = Ret("getResults", Undefined,
                  [score |-> score,
                   correctAnswers |-> correctAnswers,
                   totalQuestions |-> totalQuestions,
                   accuracyRate |-> accuracyRate,
                   wrongAnswers |-> wrongAnswers,
                   levelUpInfo |-> levelUpInfo,
                   newBadges |-> newBadges,
                   newStreak |-> newStreak])
    /\ UNCHANGED <<questions, figures, session, today>>

\* the methods getResults calls that save the record, in the order of the calls
SaveSteps ==
    {"addExperience", "updateStatistics", "updateStreak", "checkBadgeConditions",
     "unlockFiguresFromQuiz", "addQuizToHistory"}

\* saveUserData at the end of a method: localStorage.setItem stores the record
\* after, or throws (the quota is exceeded), which is caught and logged and leaves
\* the item as it was before
Saved(ok, before, after) == IF ok THEN after ELSE before

\* the record stored at the end of getResults when the saves of the methods in
\* failing fail and the others succeed; every method loads the stored record anew
getResultsStored(failing) ==
    LET totalQuestions == Len(currentQuestions)
        u1 == Saved("addExperience" \notin failing, stored,
                    addExperienceData(stored, score))
        u2 == Saved("updateStatistics" \notin failing, u1,
                    updateStatisticsData(u1, [totalQuestions |-> totalQuestions,
                                              correctAnswers |-> correctAnswers]))
        u3 == Saved("updateStreak" \notin failing, u2, updateStreakData(u2, today))
        u4 == Saved("checkBadgeConditions" \notin failing, u3,
                    checkBadgeConditionsData(u3, [correctAnswers |-> correctAnswers,
                                                  totalQuestions |-> totalQuestions,
                                                  difficulty |-> difficulty]))
        u5 == Saved("unlockFiguresFromQuiz" \notin failing, u4, unlockFiguresFromQuizData(u4))
    IN  Saved("addQuizToHistory" \notin failing, u5,
              addQuizToHistoryData(u5, [difficulty |-> difficulty,
                                        score |-> score,
                                        correctAnswers |-> correctAnswers,
                                        totalQuestions |-> totalQuestions,
                                        accuracyRate |->
                                            calculatePercentage(correctAnswers, totalQuestions)],
                                   today))

\* getResults while saves may fail: the values returned are computed from the
\* records the methods hold in memory, whether or not their saves succeed
GetResultsSaving(failing) ==
    LET totalQuestions == Len(currentQuestions)
        u1 == Saved("addExperience" \notin failing, stored,
                    addExperienceData(stored, score))
        u2 == Saved("updateStatistics" \notin failing, u1,
                    updateStatisticsData(u1, [totalQuestions |-> totalQuestions,
                                              correctAnswers |-> correctAnswers]))
        u3 == Saved("updateStreak" \notin failing, u2, updateStreakData(u2, today))
    IN
    /\ stored' = getResultsStored(failing)
    /\ ret' = Ret("getResults", Undefined,
                  [score |-> score,
                   correctAnswers |-> correctAnswers,
                   totalQuestions |-> totalQuestions,
                   accuracyRate |-> calculatePercentage(correctAnswers, totalQuestions),
                   wrongAnswers |-> wrongAnswers,
                   levelUpInfo |-> addExperienceRet(stored, score),
                   newBadges |-> checkBadgeConditionsRet(u3,
                                    [correctAnswers |-> correctAnswers,
                                     totalQuestions |-> totalQuestions,
                                     difficulty |-> difficulty]),
                   newStreak |-> updateStreakRet(u2, today)])
    /\ UNCHANGED <<questions, figures, session, today>>

----------------------------------------------------------------------------
(* Direct calls of the progression engine and the store *)

AddExperience(exp) ==
    /\ stored' = addExperienceData(stored, exp)
    /\ ret' = Ret("addExperience", exp, addExperienceRet(stored, exp))
    /\ UNCHANGED <<questions, figures, session, today>>

\* StorageManager.addExperience(exp), called on the store itself
StorageAddExperience(exp) ==
    /\ stored' = storageAddExperienceData(stored, exp)
    /\ ret' = Ret("storage.addExperience", exp, Undefined)
    /\ UNCHANGED <<questions, figures, session, today>>

CalculatePoints(diff, isCorrect, consecutive) ==
    /\ ret' = Ret("calculatePoints",
                  [difficulty |-> diff, isCorrect |-> isCorrect, consecutive |-> consecutive],
                  calculatePoints(diff, isCorrect, consecutive))
    /\ UNCHANGED <<questions, figures, session, stored, today>>

CalculateConsecutiveBonus(consecutive) ==
    /\ ret' = Ret("calculateConsecutiveBonus", consecutive,
                  calculateConsecutiveBonus(consecutive))
    /\ UNCHANGED <<questions, figures, session, stored, today>>

CheckBadgeConditions(quizResult) ==
    /\ stored' = checkBadgeConditionsData(stored, quizResult)
    /\ ret' = Ret("checkBadgeConditions", quizResult,
                  checkBadgeConditionsRet(stored, quizResult))
    /\ UNCHANGED <<questions, figures, session, today>>

GetAllBadges ==
    /\ ret' = Ret("getAllBadges", Undefined, getAllBadgesRet(stored))
    /\ UNCHANGED <<questions, figures, session, stored, today>>

CheckCategoryMaster(category, allFigures) ==
    /\ stored' = checkCategoryMasterData(stored, category, allFigures)
    /\ ret' = Ret("checkCategoryMaster", category,
                  checkCategoryMasterRet(stored, category, allFigures))
    /\ UNCHANGED <<questions, figures, session, today>>

AwardBadge(badgeId) ==
    /\ stored' = awardBadgeData(stored, badgeId)
    /\ ret' = Ret("awardBadge", badgeId, awardBadgeRet(stored, badgeId))
    /\ UNCHANGED <<questions, figures, session, today>>

UnlockFigure(figureId) ==
    /\ stored' = unlockFigureData(stored, figureId)
    /\ ret' = Ret("unlockFigure", figureId, Undefined)
    /\ UNCHANGED <<questions, figures, session, today>>

UpdateStatistics(stats) ==
    /\ stored' = updateStatisticsData(stored, stats)
    /\ ret' = Ret("updateStatistics", stats, Undefined)
    /\ UNCHANGED <<questions, figures, session, today>>

UpdateStreak ==
    /\ stored' = updateStreakData(stored, today)
    /\ ret' = Ret("updateStreak", Undefined, updateStreakRet(stored, today))
    /\ UNCHANGED <<questions, figures, session, today>>

AddQuizToHistory(quizResult) ==
    /\ stored' = addQuizToHistoryData(stored, quizResult, today)
    /\ ret' = Ret("addQuizToHistory", quizResult, Undefined)
    /\ UNCHANGED <<questions, figures, session, today>>

\* importData(jsonData): a text that parses is saved as it is and the page is
\* reloaded, which constructs the objects again and runs App.init; a text that
\* does not parse is reported by an alert
ImportData(jsonData) ==
    IF Parses(jsonData)
    THEN /\ stored' = initializeUserDataData(savedItem(JSONParse(jsonData)))
         /\ currentQuestions' = <<>>
         /\ currentQuestionIndex' = 0
         /\ score' = 0
         /\ correctAnswers' = 0
         /\ wrongAnswers' = <<>>
         /\ consecutiveCorrect' = 0
         /\ difficulty' = "beginner"
         /\ isAnswered' = FALSE
         /\ ret' = Ret("importData", jsonData, [alerted |-> FALSE, reloaded |-> TRUE])
         /\ UNCHANGED <<questions, figures, today>>
    ELSE /\ ret' = Ret("importData", jsonData, [alerted |-> TRUE, reloaded |-> FALSE])
         /\ UNCHANGED <<questions, figures, session, stored, today>>

----------------------------------------------------------------------------
(* The environment *)

\* the calendar date changes (a clock may also be set back)
DateChange(d) ==
    /\ d # today
    /\ today' = d
    /\ UNCHANGED <<questions, figures, session, stored, ret>>

----------------------------------------------------------------------------
(* Initial states: the objects as constructed, the record as                *)
(* initializeUserData stores it at start-up                                 *)

Constructed ==
    /\ currentQuestions = <<>>
    /\ currentQuestionIndex = 0
    /\ score = 0
    /\ correctAnswers = 0
    /\ wrongAnswers = <<>>
    /\ consecutiveCorrect = 0
    /\ difficulty = "beginner"
    /\ isAnswered = FALSE

Started == Ret("init", Undefined, Undefined)

\* a step of a run whose length is not bounded / is bounded by MaxCalls
Uncounted == UNCHANGED calls
Counted == calls < MaxCalls /\ calls' = calls + 1

----------------------------------------------------------------------------
(* Spec: the quiz as the display layer can drive it, results included *)

Init ==
    /\ questions = Pool
    /\ figures = Figures
    /\ Constructed
    /\ stored = defaultUserData
    /\ today \in 0..MaxDay
    /\ ret = Started
    /\ calls = 0

Next ==
    \/ Uncounted /\ \E diff \in Difficulties : StartQuiz(diff)
    \/ Uncounted /\ \E selectedOption \in Options : CheckAnswer(selectedOption)
    \/ Uncounted /\ currentQuestionIndex < Len(currentQuestions) + MaxOverrun /\ NextQuestion
    \/ Uncounted /\ stored # NoData /\ Len(stored.quizHistory) < MaxSessions /\ GetResults
    \/ Uncounted /\ \E d \in 0..MaxDay : DateChange(d)

Spec == Init /\ [][Next]_vars

----------------------------------------------------------------------------
(* SpecSession: the session operations alone, getResults never called *)

InitSession ==
    /\ questions = Pool
    /\ figures = Figures
    /\ Constructed
    /\ stored = defaultUserData
    /\ today = 0
    /\ ret = Started
    /\ calls = 0

NextSession ==
    \/ Uncounted /\ \E diff \in Difficulties : StartQuiz(diff)
    \/ Uncounted /\ GetCurrentQuestion
    \/ Uncounted /\ GetProgress
    \/ Uncounted /\ \E selectedOption \in Options : CheckAnswer(selectedOption)
    \/ Uncounted /\ currentQuestionIndex < Len(currentQuestions) + MaxOverrun /\ NextQuestion

SpecSession == InitSession /\ [][NextSession]_vars

----------------------------------------------------------------------------
(* SpecSelect: the first startQuiz over pools of every size up to MaxPool *)

InitSelect ==
    /\ questions \in {PoolOf(n) : n \in 0..MaxPool}
    /\ figures = Figures
    /\ Constructed
    /\ stored = defaultUserData
    /\ today = 0
    /\ ret = Started
    /\ calls = 0

NextSelect ==
    \/ Uncounted /\ ret = Started /\ \E diff \in Difficulties : StartQuiz(diff)

SpecSelect == InitSelect /\ [][NextSelect]_vars

----------------------------------------------------------------------------
(* SpecStore: runs of at most MaxCalls calls of the session, the            *)
(* progression engine and the store, in any order.  The initial record is   *)
(* the default one or one with a streak of 6 or 29 days played up to day 0  *)
(* (what updateStreak called on that many consecutive days leaves).         *)

StreakRecord(n) == [defaultUserData EXCEPT !.streak = n, !.lastPlayDate = formatDate(0)]

StoreSamples ==
    {defaultUserData, StreakRecord(Streak7Days - 1), StreakRecord(Streak30Days - 1)}

\* the session summaries passed to checkBadgeConditions and addQuizToHistory
QuizResults ==
    {[correctAnswers |-> c, totalQuestions |-> 1, difficulty |-> "beginner"] : c \in {0, 1}}

HistoryEntries ==
    {[difficulty |-> "beginner", score |-> 10 * c, correctAnswers |-> c,
      totalQuestions |-> 1, accuracyRate |-> 100 * c] : c \in {0, 1}}

\* the objects passed to updateStatistics
StatsInputs ==
    {[totalQuestions |-> 50, correctAnswers |-> 50],
     [totalQuestions |-> 200, correctAnswers |-> 150, category |-> "artist"]}

ExpInputs == {0, 50, 1000}

InitStore ==
    /\ questions = TinyPool
    /\ figures = Figures
    /\ Constructed
    /\ stored \in StoreSamples
    /\ today \in 0..MaxDay
    /\ ret = Started
    /\ calls = 0

NextStore ==
    \/ Counted /\ StartQuiz("beginner")
    \/ Counted /\ \E selectedOption \in Options : CheckAnswer(selectedOption)
    \/ Counted /\ NextQuestion
    \/ Counted /\ GetResults
    \/ Counted /\ \E d \in 0..(MaxDay + 1) : DateChange(d)
    \/ Counted /\ \E exp \in ExpInputs : AddExperience(exp)
    \/ Counted /\ \E quizResult \in QuizResults : CheckBadgeConditions(quizResult)
    \/ Counted /\ \E category \in {"scientist", "musician"} :
                     CheckCategoryMaster(category, Figures)
    \/ Counted /\ \E badgeId \in {"scholar", "artist_master"} : AwardBadge(badgeId)
    \/ Counted /\ \E figureId \in {"f1", "f2"} : UnlockFigure(figureId)
    \/ Counted /\ \E stats \in StatsInputs : UpdateStatistics(stats)
    \/ Counted /\ UpdateStreak
    \/ Counted /\ \E quizResult \in HistoryEntries : AddQuizToHistory(quizResult)

SpecStore == InitStore /\ [][NextStore]_vars

----------------------------------------------------------------------------
(* SpecExp: addExperience and whole sessions, from records of every level   *)
(* up to MaxLevel with no experience, half a threshold, or 10 short of it   *)

ExpSamples ==
    UNION {{[defaultUserData EXCEPT !.level = l, !.experience = e] :
               e \in {0, 50 * l * l, 100 * l * l - 10}} : l \in 1..MaxLevel}

InitExp ==
    /\ questions = TinyPool
    /\ figures = Figures
    /\ Constructed
    /\ stored \in ExpSamples
    /\ today = 0
    /\ ret = Started
    /\ calls = 0

NextExp ==
    \/ Uncounted /\ StartQuiz("beginner")
    \/ Uncounted /\ \E selectedOption \in Options : CheckAnswer(selectedOption)
    \/ Uncounted /\ currentQuestionIndex < Len(currentQuestions) + MaxOverrun /\ NextQuestion
    \/ Uncounted /\ Len(stored.quizHistory) < MaxSessions /\ GetResults
    \/ Uncounted /\ stored.level <= MaxLevel /\ \E exp \in ExpInputs : AddExperience(exp)

SpecExp == InitExp /\ [][NextExp]_vars

----------------------------------------------------------------------------
(* SpecPerfect: one session of QuizLength beginner questions, answered in   *)
(* any way, up to its getResults.  Math.random() returns the same value at  *)
(* every draw of the shuffle; nextQuestion follows an answer, as the button *)
(* of the display layer does.  The record is the default one or one that    *)
(* holds the perfectionist badge already.                                   *)

\* the draws of a shuffle of n elements when Math.random() is constant
ConstantDraws(n) ==
    {[i \in 1..(n - 1) |-> (k * (i + 1)) \div RandomSteps] : k \in 0..(RandomSteps - 1)}

PerfectSamples == {defaultUserData, awardBadgeData(defaultUserData, "perfectionist")}

InitPerfect ==
    /\ questions = PoolOf(QuizLength)
    /\ figures = Figures
    /\ Constructed
    /\ stored \in PerfectSamples
    /\ today = 0
    /\ ret = Started
    /\ calls = 0

NextPerfect ==
    \/ Uncounted /\ ret.op # "getResults"
                 /\ \E draws \in ConstantDraws(Available(questions, "beginner")) :
                       StartQuizWith("beginner", draws)
    \/ Uncounted /\ ret.op # "getResults"
                 /\ \E selectedOption \in Options : CheckAnswer(selectedOption)
    \/ Uncounted /\ ret.op # "getResults" /\ isAnswered
                 /\ currentQuestionIndex < Len(currentQuestions) /\ NextQuestion
    \/ Uncounted /\ ret.op # "getResults" /\ GetResults

SpecPerfect == InitPerfect /\ [][NextPerfect]_vars

----------------------------------------------------------------------------
(* SpecHistory: MaxHistorySessions whole sessions of the one-question pool, *)
(* SessionsPerDay of them on each day from day 0 on, the results of each    *)
(* taken once, when nextQuestion has returned false.  The answers given     *)
(* before day MaxDay are free, the later ones are correct.  (The days stay  *)
(* below 25: MsPerDay times a larger day number exceeds the integers of the *)
(* model checker, which the numbers of the program do not.)                 *)

\* the number of sessions whose results were taken: each has one question
SessionsCompleted == stored.statistics.totalQuestions

InitHistory ==
    /\ questions = TinyPool
    /\ figures = Figures
    /\ Constructed
    /\ stored = defaultUserData
    /\ today = 0
    /\ ret = Started
    /\ calls = 0

NextHistory ==
    \/ Uncounted /\ SessionsCompleted < SessionsPerDay * (today + 1)
                 /\ currentQuestionIndex = Len(currentQuestions)
                 /\ StartQuiz("beginner")
    \/ Uncounted /\ \E selectedOption \in (IF today < MaxDay THEN Options ELSE {0}) :
                       CheckAnswer(selectedOption)
    \/ Uncounted /\ isAnswered
                 /\ currentQuestionIndex < Len(currentQuestions) /\ NextQuestion
    \/ Uncounted /\ SessionsCompleted < MaxHistorySessions
                 /\ ret.op = "nextQuestion" /\ ret.val = FALSE
                 /\ GetResults
    \/ Uncounted /\ SessionsCompleted = SessionsPerDay * (today + 1)
                 /\ DateChange(today + 1)

SpecHistory == InitHistory /\ [][NextHistory]_vars

----------------------------------------------------------------------------
(* SpecPoints: calculatePoints and calculateConsecutiveBonus called with    *)
(* every difficulty of the pool and one that is none of them, both          *)
(* correctness flags and every count up to MaxConsecutive                   *)

PointsDifficulties == Difficulties \cup {"expert"}

InitPoints ==
    /\ questions = TinyPool
    /\ figures = Figures
    /\ Constructed
    /\ stored = defaultUserData
    /\ today = 0
    /\ ret = Started
    /\ calls = 0

NextPoints ==
    \/ Uncounted /\ \E diff \in PointsDifficulties, isCorrect \in BOOLEAN,
                       consecutive \in 0..MaxConsecutive :
                       CalculatePoints(diff, isCorrect, consecutive)
    \/ Uncounted /\ \E consecutive \in 0..MaxConsecutive :
                       CalculateConsecutiveBonus(consecutive)

SpecPoints == InitPoints /\ [][NextPoints]_vars

----------------------------------------------------------------------------
(* SpecImport: sessions of the one-question pool and importData with texts  *)
(* that do not parse, that parse as null, as {}, as a record that lacks     *)
(* fields, and as whole UserProgress records                                *)

\* a value with exactly the fields of a UserProgress record and of its statistics
WellFormed(u) ==
    /\ DOMAIN u = DOMAIN defaultUserData
    /\ DOMAIN u.statistics = DOMAIN defaultUserData.statistics

EmptyObject == [k \in {} |-> Null]

ImportTexts ==
    {NotJSON, TextOf(Null), TextOf(EmptyObject), TextOf([level |-> 5, experience |-> 0]),
     TextOf(defaultUserData), TextOf(StreakRecord(Streak7Days - 1))}

InitImport ==
    /\ questions = TinyPool
    /\ figures = Figures
    /\ Constructed
    /\ stored = defaultUserData
    /\ today \in 0..MaxDay
    /\ ret = Started
    /\ calls = 0

NextImport ==
    \/ Uncounted /\ StartQuiz("beginner")
    \/ Uncounted /\ \E selectedOption \in Options : CheckAnswer(selectedOption)
    \/ Uncounted /\ currentQuestionIndex < Len(currentQuestions) + MaxOverrun /\ NextQuestion
    \/ Uncounted /\ WellFormed(stored) /\ Len(stored.quizHistory) < MaxSessions /\ GetResults
    \/ Uncounted /\ \E jsonData \in ImportTexts : ImportData(jsonData)

SpecImport == InitImport /\ [][NextImport]_vars

----------------------------------------------------------------------------
(* SpecSave: sessions of the one-question pool and at most MaxSessions      *)
(* calls of getResults, any of whose saves may fail                         *)

InitSave ==
    /\ questions = TinyPool
    /\ figures = Figures
    /\ Constructed
    /\ stored = defaultUserData
    /\ today \in 0..MaxDay
    /\ ret = Started
    /\ calls = 0

NextSave ==
    \/ Uncounted /\ StartQuiz("beginner")
    \/ Uncounted /\ \E selectedOption \in Options : CheckAnswer(selectedOption)
    \/ Uncounted /\ currentQuestionIndex < Len(currentQuestions) + MaxOverrun /\ NextQuestion
    \/ calls < MaxSessions /\ calls' = calls + 1
          /\ \E failing \in SUBSET SaveSteps : GetResultsSaving(failing)

SpecSave == InitSave /\ [][NextSave]_vars

----------------------------------------------------------------------------
(* SpecBadges: sessions of the one-question pool from records one correct   *)
(* answer short of the learner or scholar badge and one day short of a      *)
(* streak badge, as updateStatistics and updateStreak leave them, holding   *)
(* no badge or the badges beginner, learner and streak_7                    *)

NearRecord(correct, days, held) ==
    [defaultUserData EXCEPT
        !.statistics = [totalQuestions |-> correct, correctAnswers |-> correct,
                        accuracyRate |-> 100, categoryStats |-> NoCategoryStats],
        !.streak = days,
        !.lastPlayDate = formatDate(0),
        !.badges = held]

BadgeSamples ==
    {NearRecord(correct, days, held) :
        correct \in {LearnerCorrect - 1, ScholarCorrect - 1},
        days \in {Streak7Days - 1, Streak30Days - 1},
        held \in {<<>>, <<"beginner", "learner", "streak_7">>}}

InitBadges ==
    /\ questions = TinyPool
    /\ figures = Figures
    /\ Constructed
    /\ stored \in BadgeSamples
    /\ today \in 0..MaxDay
    /\ ret = Started
    /\ calls = 0

NextBadges ==
    \/ Uncounted /\ StartQuiz("beginner")
    \/ Uncounted /\ \E selectedOption \in Options : CheckAnswer(selectedOption)
    \/ Uncounted /\ currentQuestionIndex < Len(currentQuestions) + MaxOverrun /\ NextQuestion
    \/ Uncounted /\ Len(stored.quizHistory) < MaxSessions /\ GetResults
    \/ Uncounted /\ \E d \in 0..MaxDay : DateChange(d)

SpecBadges == InitBadges /\ [][NextBadges]_vars

----------------------------------------------------------------------------
(* SpecAbsent: the session, the progression engine and the store while no   *)
(* record is stored: the save of initializeUserData at start-up failed      *)

InitAbsent ==
    /\ questions = TinyPool
    /\ figures = Figures
    /\ Constructed
    /\ stored = Saved(FALSE, NoData, initializeUserDataData(NoData))
    /\ today \in 0..MaxDay
    /\ ret = Started
    /\ calls = 0

NextAbsent ==
    \/ Uncounted /\ StartQuiz("beginner")
    \/ Uncounted /\ \E selectedOption \in Options : CheckAnswer(selectedOption)
    \/ Uncounted /\ currentQuestionIndex < Len(currentQuestions) + MaxOverrun /\ NextQuestion
    \/ Uncounted /\ GetResults
    \/ Uncounted /\ \E d \in 0..MaxDay : DateChange(d)
    \/ Uncounted /\ \E exp \in ExpInputs : AddExperience(exp)
    \/ Uncounted /\ \E quizResult \in QuizResults : CheckBadgeConditions(quizResult)
    \/ Uncounted /\ GetAllBadges
    \/ Uncounted /\ \E category \in {"scientist", "musician"} :
                       CheckCategoryMaster(category, Figures)
    \/ Uncounted /\ \E badgeId \in {"scholar", "artist_master"} : AwardBadge(badgeId)
    \/ Uncounted /\ \E figureId \in {"f1", "f2"} : UnlockFigure(figureId)
    \/ Uncounted /\ \E stats \in StatsInputs : UpdateStatistics(stats)
    \/ Uncounted /\ UpdateStreak
    \/ Uncounted /\ \E quizResult \in HistoryEntries : AddQuizToHistory(quizResult)

SpecAbsent == InitAbsent /\ [][NextAbsent]_vars

----------------------------------------------------------------------------
(* SpecCatalog: the session operations after a start-up in which the fetch  *)
(* of questions.json, of figures.json, of both or of neither failed; a      *)
(* catalog whose fetch failed stays the empty array of the constructor      *)

InitCatalog ==
    /\ questions \in {<<>>, Pool}
    /\ figures \in {<<>>, Figures}
    /\ Constructed
    /\ stored = defaultUserData
    /\ today = 0
    /\ ret = Started
    /\ calls = 0

NextCatalog ==
    \/ Uncounted /\ \E diff \in Difficulties : StartQuiz(diff)
    \/ Uncounted /\ \E selectedOption \in Options : CheckAnswer(selectedOption)
    \/ Uncounted /\ currentQuestionIndex < Len(currentQuestions) + MaxOverrun /\ NextQuestion

SpecCatalog == InitCatalog /\ [][NextCatalog]_vars

----------------------------------------------------------------------------
(* SpecStats: sessions of the one-question pool from the default record and *)
(* from records whose statistics updateStatistics left one answer short of  *)
(* 2 of 3, of 23 of 40, of 24 of 40 and of 113 or 114 of 200                *)

StatsRecord(total, correct) ==
    [defaultUserData EXCEPT
        !.statistics = [totalQuestions |-> total, correctAnswers |-> correct,
                        accuracyRate |-> calculatePercentage(correct, total),
                        categoryStats |-> NoCategoryStats]]

StatsSamples ==
    {defaultUserData, StatsRecord(2, 1), StatsRecord(39, 22), StatsRecord(39, 23),
     StatsRecord(199, 113)}

InitStats ==
    /\ questions = TinyPool
    /\ figures = Figures
    /\ Constructed
    /\ stored \in StatsSamples
    /\ today = 0
    /\ ret = Started
    /\ calls = 0

NextStats ==
    \/ Uncounted /\ StartQuiz("beginner")
    \/ Uncounted /\ \E selectedOption \in Options : CheckAnswer(selectedOption)
    \/ Uncounted /\ currentQuestionIndex < Len(currentQuestions) + MaxOverrun /\ NextQuestion
    \/ Uncounted /\ Len(stored.quizHistory) < MaxSessions /\ GetResults

SpecStats == InitStats /\ [][NextStats]_vars

----------------------------------------------------------------------------
(* SpecLevels: both addExperience methods, GamificationManager's and        *)
(* StorageManager's, called in any order on the records of ExpSamples       *)

InitLevels ==
    /\ questions = TinyPool
    /\ figures = Figures
    /\ Constructed
    /\ stored \in ExpSamples
    /\ today = 0
    /\ ret = Started
    /\ calls = 0

NextLevels ==
    \/ Counted /\ \E exp \in ExpInputs : AddExperience(exp)
    \/ Counted /\ \E exp \in ExpInputs : StorageAddExperience(exp)

SpecLevels == InitLevels /\ [][NextLevels]_vars

----------------------------------------------------------------------------
(* SpecDisplay: the session as the pages of App drive it.  The option       *)
(* buttons of a displayed question call checkAnswer until it returns a      *)
(* result; the next button is shown with the feedback of that result; the   *)
(* back button leaves the quiz at any point, after which a quiz can be      *)
(* started again.                                                           *)

\* the quiz screen shows a question whose option buttons are enabled
OptionsShown ==
    \/ ret.op = "startQuiz" /\ ret.val = TRUE
    \/ ret.op = "App.nextQuestion" /\ ret.val = "question"
    \/ ret.op = "checkAnswer" /\ ret.val = Null

\* the feedback section, with the next button, is shown
FeedbackShown == ret.op = "checkAnswer" /\ ret.val # Null

\* App.nextQuestion(): quiz.nextQuestion(), then displayQuestion() if it
\* returned true and showResults(), which calls quiz.getResults(), if not
AppNextQuestion ==
    LET more == currentQuestionIndex + 1 < Len(currentQuestions) IN
    /\ isAnswered' = FALSE
    /\ currentQuestionIndex' = currentQuestionIndex + 1
    /\ stored' = IF more THEN stored ELSE getResultsStored({})
    /\ ret' = Ret("App.nextQuestion", Undefined, IF more THEN "question" ELSE "results")
    /\ UNCHANGED <<questions, figures, currentQuestions, score, correctAnswers, wrongAnswers,
                   consecutiveCorrect, difficulty, today>>

InitDisplay ==
    /\ questions = Pool
    /\ figures = Figures
    /\ Constructed
    /\ stored = defaultUserData
    /\ today = 0
    /\ ret = Started
    /\ calls = 0

NextDisplay ==
    \/ Uncounted /\ \E diff \in Difficulties : StartQuiz(diff)
    \/ Uncounted /\ OptionsShown /\ \E selectedOption \in Options : CheckAnswer(selectedOption)
    \/ Uncounted /\ FeedbackShown /\ Len(stored.quizHistory) < MaxSessions /\ AppNextQuestion

SpecDisplay == InitDisplay /\ [][NextDisplay]_vars

----------------------------------------------------------------------------
(* SpecRepeat: sessions of two beginner questions, each answered and        *)
(* advanced to its end; getResults is called on an exhausted session, as    *)
(* many times as one likes, MaxCalls times in all                           *)

InitRepeat ==
    /\ questions = PoolOf(2)
    /\ figures = Figures
    /\ Constructed
    /\ stored = defaultUserData
    /\ today = 0
    /\ ret = Started
    /\ calls = 0

NextRepeat ==
    \/ Uncounted /\ StartQuiz("beginner")
    \/ Uncounted /\ \E selectedOption \in Options : CheckAnswer(selectedOption)
    \/ Uncounted /\ isAnswered /\ currentQuestionIndex < Len(currentQuestions) /\ NextQuestion
    \/ Counted /\ currentQuestions # <<>> /\ currentQuestionIndex = Len(currentQuestions)
               /\ GetResults

SpecRepeat == InitRepeat /\ [][NextRepeat]_vars

----------------------------------------------------------------------------
(* SpecMasters: from the default record, sessions on one question, and      *)
(* checkBadgeConditions and checkCategoryMaster called with categories and  *)
(* figure catalogs of the caller's choice                                   *)

\* a figure catalog that files the figure f1 under a category of its own
MusicFigures == << [id |-> "f1", category |-> "musician"] >>

InitMasters ==
    /\ questions = TinyPool
    /\ figures = Figures
    /\ Constructed
    /\ stored = defaultUserData
    /\ today = 0
    /\ ret = Started
    /\ calls = 0

NextMasters ==
    \/ Uncounted /\ StartQuiz("beginner")
    \/ Uncounted /\ \E selectedOption \in Options : CheckAnswer(selectedOption)
    \/ Uncounted /\ isAnswered /\ currentQuestionIndex < Len(currentQuestions) /\ NextQuestion
    \/ Uncounted /\ currentQuestions # <<>> /\ currentQuestionIndex = Len(currentQuestions)
                 /\ Len(stored.quizHistory) < MaxSessions /\ GetResults
    \/ Counted /\ \E quizResult \in QuizResults : CheckBadgeConditions(quizResult)
    \/ Counted /\ \E category \in {"scientist", "musician"} :
                     \E allFigures \in {Figures, MusicFigures} :
                         CheckCategoryMaster(category, allFigures)

SpecMasters == InitMasters /\ [][NextMasters]_vars

----------------------------------------------------------------------------
(* SpecStreak: from the default record, sessions on one question completed  *)
(* on days that the clock reaches forwards or backwards, MaxCalls           *)
(* getResults in all                                                        *)

InitStreak ==
    /\ questions = TinyPool
    /\ figures = Figures
    /\ Constructed
    /\ stored = defaultUserData
    /\ today \in 0..MaxDay
    /\ ret = Started
    /\ calls = 0

NextStreak ==
    \/ Uncounted /\ StartQuiz("beginner")
    \/ Uncounted /\ \E selectedOption \in Options : CheckAnswer(selectedOption)
    \/ Uncounted /\ isAnswered /\ currentQuestionIndex < Len(currentQuestions) /\ NextQuestion
    \/ Counted /\ currentQuestions # <<>> /\ currentQuestionIndex = Len(currentQuestions)
               /\ GetResults
    \/ Uncounted /\ \E d \in 0..(MaxDay + 1) : DateChange(d)

SpecStreak == InitStreak /\ [][NextStreak]_vars

----------------------------------------------------------------------------
(* SpecCounters: the session operations alone, on a pool with enough        *)
(* advanced questions for the highest points of an answer; nextQuestion is  *)
(* called whether or not the question was answered, and past the end.       *)
(* Math.random() returns the same value at every draw of a shuffle.         *)

\* the number of advanced questions of the pool: a run of 5 correct answers
\* is the shortest that earns both bonuses
AdvancedQuestions == 5

AdvancedPool ==
    [i \in 1..(AdvancedQuestions + 1) |->
        Question(i, IF i % 2 = 0 THEN "scientist" ELSE "artist",
                 IF i = 1 THEN "beginner" ELSE "advanced",
                 i % 2, IF i % 3 = 0 THEN "f1" ELSE "f2")]

InitCounters ==
    /\ questions = AdvancedPool
    /\ figures = Figures
    /\ Constructed
    /\ stored = defaultUserData
    /\ today = 0
    /\ ret = Started
    /\ calls = 0

NextCounters ==
    \/ Uncounted /\ \E diff \in Difficulties :
                       \E draws \in ConstantDraws(Available(questions, diff)) :
                           StartQuizWith(diff, draws)
    \/ Uncounted /\ \E selectedOption \in Options : CheckAnswer(selectedOption)
    \/ Uncounted /\ currentQuestionIndex <= Len(currentQuestions) + MaxOverrun /\ NextQuestion

SpecCounters == InitCounters /\ [][NextCounters]_vars

----------------------------------------------------------------------------
(* Properties *)

\* C1: after a startQuiz that returns true, whatever the session was before, the
\* cursor is at question 0, score, correctAnswers and consecutiveCorrect are 0,
\* wrongAnswers is empty and the answered guard is clear, so that the first
\* checkAnswer is accepted.
C1_StartQuizResetsSession ==
    (ret.op = "startQuiz" /\ ret.val = TRUE) =>
        /\ currentQuestionIndex = 0
        /\ score = 0
        /\ correctAnswers = 0
        /\ consecutiveCorrect = 0
        /\ wrongAnswers = <<>>
        /\ isAnswered = FALSE

\* C2: getResults called before the cursor is exhausted, or with no session
\* started, leaves the stored record unchanged.
C2_EarlyGetResultsChangesNothing ==
    [][(GetResults /\ (currentQuestionIndex < Len(currentQuestions)
                        \/ currentQuestions = <<>>))
          => stored' = stored]_vars

\* C3: whatever startQuiz, getCurrentQuestion, getProgress, checkAnswer and
\* nextQuestion calls are made, with no getResults among them, the stored record
\* is the one that was stored before them.
C3_AbandonedSessionCommitsNothing == stored = defaultUserData

\* C3 witness: a session in which points were scored and the cursor advanced
C3_Witness ==
    /\ score > 0
    /\ currentQuestionIndex > 0
    /\ ret.op = "nextQuestion"
    /\ stored = defaultUserData

\* the experience needed to pass the levels from..to: the sum of 100 * l^2
RECURSIVE ThresholdSum(_, _)
ThresholdSum(from, to) ==
    IF from > to THEN 0 ELSE 100 * from * from + ThresholdSum(from + 1, to)

\* C4: the stored experience is always at least 0 and less than 100 * level^2, and
\* addExperience(amount) raises the level once per threshold crossed: the old
\* experience plus the amount is the new experience plus the thresholds of the
\* levels passed.  getResults applies the session's score in the same way.
C4_AddExperienceCascades ==
    [][/\ stored'.level >= 1
       /\ 0 <= stored'.experience
       /\ stored'.experience < 100 * stored'.level * stored'.level
       /\ \A exp \in ExpInputs :
             AddExperience(exp) =>
                /\ stored'.level >= stored.level
                /\ stored.experience + exp =
                      stored'.experience + ThresholdSum(stored.level, stored'.level - 1)
       /\ GetResults =>
             /\ stored'.level >= stored.level
             /\ stored.experience + score =
                   stored'.experience + ThresholdSum(stored.level, stored'.level - 1)]_vars

\* C4 witness: 1000 experience added at level 1 with none: level 3, 500 left
C4_Witness ==
    /\ ret.op = "addExperience"
    /\ ret.arg = 1000
    /\ ret.val.oldLevel = 1
    /\ stored.level = 3
    /\ stored.experience = 500

\* C5: updateStreak on a stored record: played today already, the streak stays;
\* never played, it becomes 1; last played yesterday, it grows by 1; last played
\* two or more days ago, it becomes 1; and the value returned is the stored streak.
C5_StreakLaw ==
    [][UpdateStreak =>
          LET last == stored.lastPlayDate IN
          /\ (last = formatDate(today) => stored'.streak = stored.streak)
          /\ (last = Null => stored'.streak = 1)
          /\ (last # Null /\ today = last.ymd + 1 => stored'.streak = stored.streak + 1)
          /\ (last # Null /\ today >= last.ymd + 2 => stored'.streak = 1)
          /\ ret'.val = stored'.streak]_vars

\* C5 witness: a streak of 6 up to day 0 has become 7 on day 1
C5_Witness ==
    /\ ret.op = "updateStreak"
    /\ ret.val = 7
    /\ stored.streak = 7
    /\ stored.lastPlayDate = formatDate(1)

NoDuplicates(arr) == \A i, j \in DOMAIN arr : arr[i] = arr[j] => i = j

\* C6: checkBadgeConditions called again with the same session summary, the
\* stored record not changed in between, returns an empty list and leaves the
\* stored badges as they are; and the stored badges never hold an id twice.
C6_BadgesAwardedOnce ==
    [][/\ NoDuplicates(stored'.badges)
       /\ \A quizResult \in QuizResults :
             (/\ ret.op = "checkBadgeConditions"
              /\ ret.arg = quizResult
              /\ CheckBadgeConditions(quizResult)) =>
                 /\ ret'.val = <<>>
                 /\ stored'.badges = stored.badges]_vars

\* C6 witness: the second of two calls in a row, the first having awarded streak_7
C6_Witness ==
    /\ calls = 2
    /\ ret.op = "checkBadgeConditions"
    /\ ret.val = <<>>
    /\ Includes(stored.badges, "streak_7")
    /\ Includes(stored.badges, "beginner")

\* C7: a badge id in the stored badges stays in them, whatever operation of the
\* session, the progression engine or the store is called.
C7_BadgesNeverRevoked ==
    [][\A i \in DOMAIN stored.badges : Includes(stored'.badges, stored.badges[i])]_vars

\* C7 witness: a badge held across a later award
C7_Witness ==
    /\ Len(stored.badges) >= 2
    /\ stored.badges[1] = "beginner"
    /\ ret.op = "awardBadge"
    /\ ret.val = TRUE

\* C8: checkAnswer called while the current question is already answered returns
\* null and leaves score, correctAnswers, consecutiveCorrect and wrongAnswers as
\* they were, whatever option is selected.
C8_AnsweredQuestionScoredOnce ==
    [][\A selectedOption \in Options :
          (isAnswered /\ CheckAnswer(selectedOption)) =>
              /\ ret'.val = Null
              /\ UNCHANGED <<score, correctAnswers, consecutiveCorrect, wrongAnswers>>]_vars

\* C8 witness: a second checkAnswer on a question that was answered correctly
C8_Witness ==
    /\ ret.op = "checkAnswer"
    /\ ~ret.threw
    /\ ret.val = Null
    /\ isAnswered
    /\ currentQuestionIndex < Len(currentQuestions)
    /\ score > 0

\* C9: startQuiz with a difficulty no pool question has returns false and leaves
\* the session (difficulty, currentQuestions, cursor, counters, wrongAnswers,
\* answered guard) and the stored record as they were.
C9_FailedStartChangesNothing ==
    [][\A diff \in Difficulties :
          (Cardinality({i \in DOMAIN questions : questions[i].difficulty = diff}) = 0
             /\ StartQuiz(diff)) =>
              /\ ret'.val = FALSE
              /\ UNCHANGED session
              /\ stored' = stored]_vars

\* C10: after a startQuiz that returns true, currentQuestions holds min(10, n)
\* questions, n being the number of pool questions of the requested difficulty;
\* each of them is a pool question of that difficulty and none occurs twice.
C10_SelectsDistinctMatchingQuestions ==
    (ret.op = "startQuiz" /\ ret.val = TRUE) =>
        LET n == Cardinality({i \in DOMAIN questions : questions[i].difficulty = ret.arg})
        IN  /\ Len(currentQuestions) = IF n < 10 THEN n ELSE 10
            /\ \A i \in DOMAIN currentQuestions :
                  /\ currentQuestions[i].difficulty = ret.arg
                  /\ \E k \in DOMAIN questions : questions[k] = currentQuestions[i]
            /\ \A i, j \in DOMAIN currentQuestions :
                  currentQuestions[i] = currentQuestions[j] => i = j

\* C10 witness: a session of 10 questions started from a pool with 11 matching ones
C10_Witness ==
    /\ ret.op = "startQuiz"
    /\ ret.val = TRUE
    /\ Cardinality({i \in DOMAIN questions : questions[i].difficulty = ret.arg}) = 11
    /\ Len(currentQuestions) = 10

\* C11: getResults after a 10-question beginner session with 10 correct answers
\* reports correctAnswers = totalQuestions = 10, accuracyRate = 100, no wrong
\* answers and score = 10+10+20+20+6*40 = 300, and newBadges contains perfectionist
\* exactly when the stored badges did not hold it before the call.
C11_PerfectBeginnerSession ==
    [][(/\ GetResults
        /\ difficulty = "beginner"
        /\ Len(currentQuestions) = 10
        /\ correctAnswers = 10) =>
          /\ ret'.val.correctAnswers = 10
          /\ ret'.val.totalQuestions = 10
          /\ ret'.val.accuracyRate = 100
          /\ ret'.val.wrongAnswers = <<>>
          /\ ret'.val.score = 10 + 10 + 20 + 20 + 6 * 40
          /\ (Includes(ret'.val.newBadges, BadgeOf("perfectionist"))
                <=> ~Includes(stored.badges, "perfectionist"))]_vars

\* C11 witness: the results of a perfect 10-question session, perfectionist new
C11_Witness ==
    /\ ret.op = "getResults"
    /\ difficulty = "beginner"
    /\ ret.val.totalQuestions = 10
    /\ ret.val.correctAnswers = 10
    /\ ret.val.score = 300
    /\ Includes(ret.val.newBadges, BadgeOf("perfectionist"))
    /\ currentQuestionIndex = 10

\* C12: the stored quizHistory never has more than 50 entries; after k sessions,
\* completed SessionsPerDay a day from day 0 on, it holds the last min(k, 50) of
\* them, oldest first: its i-th entry is the summary of session k - min(k, 50) + i,
\* which bears the date of that session.
C12_HistoryKeepsLast50 ==
    LET h == stored.quizHistory
        k == SessionsCompleted
        n == IF k < 50 THEN k ELSE 50
    IN  /\ Len(h) <= 50
        /\ Len(h) = n
        /\ \A i \in 1..n :
              /\ h[i].date = formatDate((k - n + i - 1) \div SessionsPerDay)
              /\ h[i].totalQuestions = 1
              /\ h[i].score = 10 * h[i].correctAnswers

\* C12 witness: after 55 sessions the history holds the sessions 6..55
C12_Witness ==
    /\ SessionsCompleted = 55
    /\ Len(stored.quizHistory) = 50
    /\ stored.quizHistory[1].date = formatDate(5 \div SessionsPerDay)
    /\ stored.quizHistory[50].date = formatDate(54 \div SessionsPerDay)
    /\ ret.op = "getResults"

\* the elements of an array
SetOf(arr) == {arr[i] : i \in DOMAIN arr}

\* C13: after getResults the stored unlockedFigures is, as a set, what it was
\* united with the figure ids of the session's questions; it never holds an id
\* twice; and unlockFigure of an id it holds leaves the stored record as it is.
C13_UnlockedFiguresAreASet ==
    [][/\ NoDuplicates(stored'.unlockedFigures)
       /\ GetResults =>
             SetOf(stored'.unlockedFigures) =
                SetOf(stored.unlockedFigures)
                   \cup {currentQuestions[i].figureId : i \in DOMAIN currentQuestions}
       /\ \A figureId \in {"f1", "f2"} :
             (UnlockFigure(figureId) /\ Includes(stored.unlockedFigures, figureId)) =>
                 stored' = stored]_vars

\* C13 witness: f2 was unlocked before, the session's question unlocked f1
C13_Witness ==
    /\ ret.op = "getResults"
    /\ currentQuestions # <<>>
    /\ stored.unlockedFigures = <<"f2", "f1">>

C15_ImportValidatesBeforeCommitting ==
    [][\A jsonData \in ImportTexts :
          (/\ ImportData(jsonData)
           /\ ~(Parses(jsonData) /\ WellFormed(JSONParse(jsonData)))) =>
              /\ stored' = stored
              /\ ret'.val.alerted]_vars

\* C16: when saves may fail, the record stored after the getResults of a finished
\* session is either the one stored before it or the one with all of its updates
\* (experience, statistics, streak, badges, unlocked figures, history), never one
\* with some of them.
C16_GetResultsIsAllOrNothing ==
    [][\A failing \in SUBSET SaveSteps :
          (/\ currentQuestions # <<>>
           /\ currentQuestionIndex = Len(currentQuestions)
           /\ GetResultsSaving(failing)) =>
              \/ stored' = stored
              \/ stored' = getResultsStored({})]_vars

\* a session is finished: it has questions and the cursor is past the last one
Finished == currentQuestions # <<>> /\ currentQuestionIndex = Len(currentQuestions)

\* C17: the stored totalPoints is the sum of the scores of the sessions completed:
\* it is 0 in the default record and the getResults of a finished session adds the
\* session's score to it.
C17_TotalPointsIsLifetimeScore ==
    [][/\ stored.quizHistory = <<>> => stored.totalPoints = 0
       /\ (Finished /\ GetResults) => stored'.totalPoints = stored.totalPoints + score]_vars

\* the stored counters of a category: zero while the category has no entry
CategoryStat(u, c) ==
    IF c \in DOMAIN u.statistics.categoryStats
    THEN u.statistics.categoryStats[c]
    ELSE [total |-> 0, correct |-> 0]

\* C18: the getResults of a finished session in which every question was answered
\* adds, for every category, the number of the session's questions of that
\* category to the stored total of the category and the number of those answered
\* correctly to its correct counter.
C18_GetResultsUpdatesCategoryStats ==
    [][(/\ Finished
        /\ correctAnswers + Len(wrongAnswers) = Len(currentQuestions)
        /\ GetResults) =>
          \A c \in Categories :
             LET ofCategory == {i \in DOMAIN currentQuestions : currentQuestions[i].category = c}
                 wrong == {i \in ofCategory :
                              \E w \in DOMAIN wrongAnswers :
                                 wrongAnswers[w].question = currentQuestions[i].question}
             IN  /\ CategoryStat(stored', c).total =
                       CategoryStat(stored, c).total + Cardinality(ofCategory)
                 /\ CategoryStat(stored', c).correct =
                       CategoryStat(stored, c).correct
                          + Cardinality(ofCategory) - Cardinality(wrong)]_vars

\* C19: getResults checks the badge conditions on the record as stored after the
\* statistics and the streak of the session: when the stored correct answers are
\* 50 or more (200 or more) after it, learner (scholar) is in the newBadges it
\* returns unless held before; when the stored streak is 7 or more (30 or more)
\* after it, streak_7 (streak_30) is, unless held before.
C19_BadgesSeeTheSessionsUpdates ==
    [][GetResults =>
          LET has(id) == Includes(ret'.val.newBadges, BadgeOf(id))
              held(id) == Includes(stored.badges, id)
          IN  /\ (stored'.statistics.correctAnswers >= 50 /\ ~held("learner"))
                    => has("learner")
              /\ (stored'.statistics.correctAnswers >= 200 /\ ~held("scholar"))
                    => has("scholar")
              /\ (stored'.streak >= 7 /\ ~held("streak_7")) => has("streak_7")
              /\ (stored'.streak >= 30 /\ ~held("streak_30")) => has("streak_30")]_vars

\* C19 witness: the session's correct answer was the 50th and its day the 7th in
\* a row, and its results hold learner and streak_7
C19_Witness ==
    /\ ret.op = "getResults"
    /\ correctAnswers = 1
    /\ stored.statistics.correctAnswers = 50
    /\ stored.streak = 7
    /\ stored.lastPlayDate = formatDate(1)
    /\ Includes(ret.val.newBadges, BadgeOf("learner"))
    /\ Includes(ret.val.newBadges, BadgeOf("streak_7"))

\* C20: checkBadgeConditions returns the definitions of the badges, among
\* beginner, perfectionist, learner, scholar, streak_7 and streak_30 in this
\* order, that the stored record did not hold and whose condition holds
\* (beginner: always; perfectionist: the session's correct answers equal its
\* questions; learner: 50 stored correct answers or more; scholar: 200 or more;
\* streak_7: a stored streak of 7 or more; streak_30: of 30 or more), and the
\* stored badges after the call are those before it followed by these ids.
C20_CheckBadgeConditionsIsExact ==
    [][\A quizResult \in QuizResults :
          CheckBadgeConditions(quizResult) =>
             LET condition(id) ==
                     CASE id = "beginner" -> TRUE
                       [] id = "perfectionist" ->
                             quizResult.correctAnswers = quizResult.totalQuestions
                       [] id = "learner" -> stored.statistics.correctAnswers >= 50
                       [] id = "scholar" -> stored.statistics.correctAnswers >= 200
                       [] id = "streak_7" -> stored.streak >= 7
                       [] id = "streak_30" -> stored.streak >= 30
                 expected ==
                     SelectSeq(<<"beginner", "perfectionist", "learner", "scholar",
                                 "streak_7", "streak_30">>,
                               LAMBDA id : ~Includes(stored.badges, id) /\ condition(id))
             IN  /\ ret'.val = [i \in DOMAIN expected |-> BadgeOf(expected[i])]
                 /\ stored'.badges = stored.badges \o expected]_vars

\* C20 witness: a call that returned beginner, perfectionist, learner and streak_7
C20_Witness ==
    /\ ret.op = "checkBadgeConditions"
    /\ ret.val = <<BadgeOf("beginner"), BadgeOf("perfectionist"),
                   BadgeOf("learner"), BadgeOf("streak_7")>>
    /\ stored.badges = <<"beginner", "perfectionist", "learner", "streak_7">>

C22_AbsentRecordIsNoOp ==
    [][stored = NoData =>
          /\ stored' = NoData
          /\ ret'.op \notin {"startQuiz", "checkAnswer", "nextQuestion"} => ~ret'.threw
          /\ \A exp \in ExpInputs :
                AddExperience(exp) => ret'.val = [leveledUp |-> FALSE]
          /\ \A quizResult \in QuizResults :
                CheckBadgeConditions(quizResult) => ret'.val = <<>>
          /\ GetAllBadges => ret'.val = <<>>
          /\ UpdateStreak => ret'.val = 0
          /\ (Finished /\ GetResults) =>
                ret'.val = [score |-> score,
                            correctAnswers |-> correctAnswers,
                            totalQuestions |-> Len(currentQuestions),
                            accuracyRate |->
                                IF correctAnswers = Len(currentQuestions) THEN 100 ELSE 0,
                            wrongAnswers |-> wrongAnswers,
                            levelUpInfo |-> [leveledUp |-> FALSE],
                            newBadges |-> <<>>,
                            newStreak |-> 0]]_vars

\* C22 witness: the results of a finished, correctly answered session, nothing stored
C22_Witness ==
    /\ stored = NoData
    /\ ret.op = "getResults"
    /\ ~ret.threw
    /\ Finished
    /\ ret.val.score = 10
    /\ ret.val.newStreak = 0
    /\ ret.val.newBadges = <<>>

\* C23: when the question catalog or the figure catalog failed to load, every
\* startQuiz returns false and leaves no session in progress.
C23_NoStartWithoutCatalogs ==
    [][\A diff \in Difficulties :
          ((questions = <<>> \/ figures = <<>>) /\ StartQuiz(diff)) =>
              /\ ret'.val = FALSE
              /\ currentQuestions' = <<>>]_vars

\* C24: a checkAnswer on an unanswered current question: with the correct option,
\* correctAnswers and consecutiveCorrect grow by 1 and score by
\* calculatePoints(difficulty, true, the grown consecutiveCorrect); with another
\* option, consecutiveCorrect becomes 0, one entry is appended to wrongAnswers,
\* score and correctAnswers stay; either way the points of the result are the
\* growth of score.
C24_CheckAnswerScoring ==
    [][\A selectedOption \in Options :
          (/\ ~isAnswered
           /\ getCurrentQuestion # Undefined
           /\ CheckAnswer(selectedOption)) =>
              /\ ret'.val.points = score' - score
              /\ IF selectedOption = getCurrentQuestion.correctAnswer
                 THEN /\ ret'.val.isCorrect
                      /\ correctAnswers' = correctAnswers + 1
                      /\ consecutiveCorrect' = consecutiveCorrect + 1
                      /\ score' = score + calculatePoints(difficulty, TRUE,
                                                          consecutiveCorrect + 1)
                      /\ wrongAnswers' = wrongAnswers
                 ELSE /\ ~ret'.val.isCorrect
                      /\ consecutiveCorrect' = 0
                      /\ Len(wrongAnswers') = Len(wrongAnswers) + 1
                      /\ SubSeq(wrongAnswers', 1, Len(wrongAnswers)) = wrongAnswers
                      /\ score' = score
                      /\ correctAnswers' = correctAnswers]_vars

\* C24 witness: the fifth correct answer in a row, worth 10 + 30
C24_Witness ==
    /\ ret.op = "checkAnswer"
    /\ ~ret.threw
    /\ ret.val # Null
    /\ ret.val.isCorrect
    /\ ret.val.points = 40
    /\ consecutiveCorrect = 5
    /\ score = 100

\* C25: getResults adds the session's number of questions to the stored
\* totalQuestions and its correct answers to the stored correctAnswers; the
\* stored correctAnswers never exceed totalQuestions; and while totalQuestions
\* is positive the stored accuracyRate is an integer of 0..100 nearest to
\* 100 * correctAnswers / totalQuestions.
C25_StatisticsAreSumsAndRate ==
    [][LET before == stored.statistics
           after == stored'.statistics
       IN  /\ GetResults =>
                 /\ after.totalQuestions = before.totalQuestions + Len(currentQuestions)
                 /\ after.correctAnswers = before.correctAnswers + correctAnswers
           /\ after.correctAnswers <= after.totalQuestions
           /\ after.totalQuestions > 0 =>
                 /\ after.accuracyRate \in 0..100
                 /\ 2 * (100 * after.correctAnswers
                            - after.accuracyRate * after.totalQuestions)
                       <= after.totalQuestions
                 /\ 2 * (after.accuracyRate * after.totalQuestions
                            - 100 * after.correctAnswers)
                       <= after.totalQuestions]_vars

\* C25 witness: the session's answer made it 23 of 40, stored as 57 per cent
C25_Witness ==
    /\ ret.op = "getResults"
    /\ correctAnswers = 1
    /\ stored.statistics.totalQuestions = 40
    /\ stored.statistics.correctAnswers = 23
    /\ stored.statistics.accuracyRate = 57

\* C26: updateStreak on a day earlier than the stored lastPlayDate leaves the
\* stored streak as it is, returns it, and stores today as lastPlayDate.
C26_EarlierDateKeepsStreak ==
    [][(/\ UpdateStreak
        /\ stored.lastPlayDate # Null
        /\ today < stored.lastPlayDate.ymd) =>
          /\ stored'.streak = stored.streak
          /\ stored'.lastPlayDate = formatDate(today)
          /\ ret'.val = stored.streak]_vars

\* C26 witness: a streak that became 7 on day 1, kept by updateStreak on day 0
C26_Witness ==
    /\ ret.op = "updateStreak"
    /\ ret.val = 7
    /\ today = 0
    /\ stored.streak = 7
    /\ stored.lastPlayDate = formatDate(0)

\* C27: checkAnswer called while there is no current question (no session was
\* started, or the cursor is at or past the end of currentQuestions) raises no
\* error and leaves the session and the stored record as they were.
C27_CheckAnswerWithoutQuestionIsNoOp ==
    [][((\E selectedOption \in Options : CheckAnswer(selectedOption))
        /\ getCurrentQuestion = Undefined) =>
          /\ ret'.threw = FALSE
          /\ session' = session
          /\ stored' = stored]_vars

\* C28: after every operation that adds experience to the stored record, the
\* addExperience of StorageManager as well as that of GamificationManager, the
\* stored experience is below the experience required at the stored level.
C28_ExperienceBelowRequired ==
    ret.op \in {"addExperience", "storage.addExperience"} =>
        stored.experience < calculateRequiredExp(stored.level)

\* C29: in the flow of the pages, where a quiz may be left at any point and
\* another started, the question shown with its option buttons after a
\* successful startQuiz, or after advancing, can be answered: there is a current
\* question and the answered guard is clear, so that the session goes on to its
\* end.
C29_ShownQuestionIsAnswerable ==
    OptionsShown => (getCurrentQuestion # Undefined /\ isAnswered = FALSE)

\* C30: a getResults called again on the session whose results were just
\* committed, with no startQuiz in between, commits nothing more: no history
\* entry is added, and the stored level, experience and statistics stay as they
\* are.
C30_SessionCommittedOnce ==
    [][(GetResults /\ Finished /\ ret.op = "getResults") =>
          /\ Len(stored'.quizHistory) = Len(stored.quizHistory)
          /\ stored'.level = stored.level
          /\ stored'.experience = stored.experience
          /\ stored'.statistics = stored.statistics]_vars

\* C31: every id in the stored badges list is one of the 11 ids of the badge
\* catalog, and every badge that checkBadgeConditions or checkCategoryMaster
\* returns as newly awarded is an entry of the catalog.
C31_BadgesAreCatalogEntries ==
    /\ \A i \in DOMAIN stored.badges : stored.badges[i] \in DOMAIN Badges
    /\ ret.op = "checkBadgeConditions" =>
          \A i \in DOMAIN ret.val : \E id \in DOMAIN Badges : ret.val[i] = Badges[id]
    /\ (ret.op = "checkCategoryMaster" /\ ret.val \notin {Undefined, Null}) =>
          \E id \in DOMAIN Badges : ret.val = Badges[id]

\* C32: the stored lastPlayDate is set exactly when the stored streak is at
\* least 1, and the newStreak that getResults returns is the stored streak.
C32_StreakAndLastPlayDateAgree ==
    /\ (stored.lastPlayDate # Null) <=> (stored.streak >= 1)
    /\ ret.op = "getResults" => ret.val.newStreak = stored.streak

\* C32 witness: a streak of 2 reached on day 1, kept by a session completed
\* after the clock went back to day 0
C32_Witness ==
    /\ ret.op = "getResults"
    /\ ret.val.newStreak = 2
    /\ today = 0
    /\ stored.streak = 2
    /\ stored.lastPlayDate = formatDate(0)

\* the answers of the session counted so far
Answered == correctAnswers + Len(wrongAnswers)

\* C33: correctAnswers + Len(wrongAnswers) counts the answered questions of the
\* session (0 after startQuiz, one more after every checkAnswer that returns a
\* result, the same after any other call); it is at most currentQuestionIndex + 1
\* and at most Len(currentQuestions); consecutiveCorrect is at most
\* correctAnswers; and score is at most 60 * correctAnswers.
C33_SessionCountersBounded ==
    /\ [](/\ Answered <= currentQuestionIndex + 1
          /\ Answered <= Len(currentQuestions)
          /\ consecutiveCorrect <= correctAnswers
          /\ score <= 60 * correctAnswers)
    /\ [][Answered' =
            IF ret'.op = "startQuiz" THEN 0
            ELSE IF ret'.op = "checkAnswer" /\ ~ret'.threw /\ ret'.val # Null
                 THEN Answered + 1
                 ELSE Answered]_vars

\* C33 witness: the fifth correct answer in a row of an advanced session, worth
\* 60 points, after which the score is 30 + 30 + 40 + 40 + 60
C33_Witness ==
    /\ ret.op = "checkAnswer"
    /\ ~ret.threw
    /\ ret.val # Null
    /\ ret.val.points = 60
    /\ correctAnswers = 5
    /\ consecutiveCorrect = 5
    /\ score = 200

====
